---- MODULE Spec2Model ----
(***************************************************************************)
(* strong-fetch: five wrappers around an asynchronous request function.    *)
(*   fetchWithTimeout  src/src/index.ts 11-29  (JavaScript build: index.js)*)
(*   fetchWithRetry    src/src/index.ts 39-49                              *)
(*   addHeader         src/src/index.ts 56-61                              *)
(*   fetchWithAuth     src/src/index.ts 69-86                              *)
(*   fetchByProxy      src/src/index.ts 93-99                              *)
(*   fixedRefresh      src/src/index.ts 108-125                            *)
(* The TypeScript source is followed; the JavaScript build differs in the  *)
(* cleanup of fetchWithTimeout, which is followed as a wrapper of its own. *)
(*                                                                         *)
(* The wrappers share no state: fetchWithTimeout and fetchWithRetry are    *)
(* stateless functions, fetchWithAuth and fixedRefresh each close over     *)
(* their own variables.  A behaviour therefore follows one exported        *)
(* wrapper (the variable "wrapper"); the product of two of them adds no    *)
(* behaviour of either.                                                    *)
(*                                                                         *)
(* JavaScript runs every continuation to completion: one action is one     *)
(* macrotask (a call made by the program, a transport or operation         *)
(* settling, a timer firing) together with the promise continuations it    *)
(* makes runnable, in the order the promise reactions were registered.     *)
(*                                                                         *)
(* An optional value (a parameter that may be undefined) is a sequence of  *)
(* length 0 or 1.  Options objects and Headers objects are kept in         *)
(* optionObjects and headerObjects, an object being its index, so that     *)
(* assigning a field of an object differs from deriving a new object.      *)
(*                                                                         *)
(* Spec is the safety specification of all wrappers; RetrySpec is          *)
(* fetchWithRetry with timers that fire and an operation that settles.     *)
(***************************************************************************)
EXTENDS Integers, Sequences, FiniteSets, TLC

\* ------------------------------------------------------------ bounds
MaxInterval == 6
MaxFails == 2
MaxOpFails == 1
MaxCalls == 2
MaxTimeoutCalls == 1
MaxRuns == 2
MaxTicks == 2
TickMs == 1000
StartTime == 400000

\* ------------------------------------------------------------ program constants
DefaultInterval == 5
DefaultRefreshInterval == 60 * 5
DefaultTimeout == 5000

Undefined == <<>>
\* a string is a sequence of symbols; "" is the empty one
EmptyString == <<>>
Some(x) == <<x>>
\* fetchWithTimeout as the JavaScript build (src/index.js) ships it
JsFetchWithTimeout == "fetchWithTimeout (index.js)"
Wrappers ==
  {"fetchWithRetry", "fetchWithTimeout", JsFetchWithTimeout, "fetchWithAuth", "fetchByProxy",
   "fixedRefresh"}
\* what the operation of fetchWithRetry or fixedRefresh may resolve with: a falsy value
\* and two truthy ones
Values == {0, 1, 2}
Max(a, b) == IF a >= b THEN a ELSE b

VARIABLES
  wrapper,              \* the exported wrapper this program uses
  now,                  \* Date.now(), in ms
  ticks,                \* how often the clock has been advanced by Tick
  runs,                 \* the fetchWithRetry calls made so far, in call order
  timeoutCalls,         \* the fetchWithTimeout calls of the program
  clearImmediateCancels,  \* JavaScript build: whether the runtime's clearImmediate, given
                        \* the Timeout object of setTimeout, cancels that timer
  authInit,             \* fetchWithAuth: the options the program passes to the function _
  authRefusal,          \* fetchWithAuth: the status (401 or 403) the server refuses a
                        \* credential with
  Authorization,        \* fetchWithAuth: let Authorization
  authPromise,          \* fetchWithAuth: let promise (0: null or undefined, k: runs[k])
  authCalls,            \* fetchWithAuth: the calls of the returned function _
  res,                  \* fixedRefresh: let res
  cachePromise,         \* fixedRefresh: let promise (0: null or undefined, k: runs[k])
  lastUpdateTimestamp,  \* fixedRefresh: let lastUpdateTimestamp
  cacheInterval,        \* fixedRefresh: the interval argument (optional)
  cacheCalls,           \* fixedRefresh: the calls of the returned accessor _
  updates,              \* fixedRefresh: the refreshes completed so far, in order: the value
                        \* the data fetch produced and Date.now() at its completion
  optionObjects,        \* the options objects created so far (an object is its index)
  headerObjects,        \* the Headers objects created so far
  frames,               \* per call of a wrapper that takes options: the caller's object,
                        \* its contents at the call, and the objects handed on
  proxyCalls            \* the fetchByProxy calls of the program

vars == <<wrapper, now, ticks, runs, timeoutCalls, clearImmediateCancels, authInit, authRefusal, Authorization, authPromise, authCalls,
          res, cachePromise, lastUpdateTimestamp, cacheInterval, cacheCalls, updates,
          optionObjects, headerObjects, frames, proxyCalls>>

timeVars == <<now, ticks>>
timeoutVars == <<timeoutCalls>>
authVars == <<authInit, authRefusal, Authorization, authPromise, authCalls>>
cacheVars == <<res, cachePromise, lastUpdateTimestamp, cacheInterval, cacheCalls, updates>>
heapVars == <<optionObjects, headerObjects, frames>>
proxyVars == <<proxyCalls>>
buildVars == <<clearImmediateCancels>>

\* ------------------------------------------------------------ fetchWithRetry
\* A call of fetchWithRetry is a record:
\*   pc          "calling": fun() is pending; "delay": the retry timer is pending;
\*               "resolved" / "rejected": the returned promise has settled
\*   configured  the interval the caller passed (optional); never changes
\*   arg         the interval parameter of the current (recursive) invocation
\*   invocations how often fun has been invoked
\*   fails       how often fun has failed
\*   armedAt,due when the pending retry timer was armed and when it is due
\*   delays      the retry delays so far: the duration armed and the time waited
\*   result      the value the promise resolved to (optional)
\*   log         what the invocations of fun did, in order: Some(v) resolved with v,
\*               Undefined rejected (kept by the actions, not by fetchWithRetry)

\* interval = 5: the default applies when the argument is undefined
IntervalOf(arg) == IF arg = Undefined THEN DefaultInterval ELSE arg[1]

\* fetchWithRetry(fun, interval) up to its first await: fun() is invoked
FetchWithRetry(arg) ==
  [pc |-> "calling", configured |-> arg, arg |-> arg, invocations |-> 1, fails |-> 0,
   armedAt |-> 0, due |-> 0, delays |-> <<>>, result |-> Undefined, log |-> <<>>]

\* const res = await fun(); return res;
OnSuccess(r, v) == [r EXCEPT !.pc = "resolved", !.result = Some(v)]

OnFailure_Rethrow(r, t) == [r EXCEPT !.pc = "rejected", !.fails = @ + 1]

OnFailure_Capped(r, t) ==
  IF r.fails >= 1 THEN [r EXCEPT !.pc = "rejected", !.fails = @ + 1]
  ELSE [r EXCEPT !.pc = "delay", !.fails = @ + 1,
                 !.armedAt = t, !.due = t + 1000 * IntervalOf(r.arg)]

\* catch (err): log, then setTimeout(resolve, 1000 * interval)
OnFailure(r, t) ==
  [r EXCEPT !.pc = "delay", !.fails = @ + 1,
            !.armedAt = t, !.due = t + 1000 * IntervalOf(r.arg)]

\* the timer fires at t: return fetchWithRetry(fun), a new invocation whose interval
\* parameter is undefined, and which invokes fun() again
OnTimer(r, t) ==
  [r EXCEPT !.pc = "calling", !.arg = Undefined, !.invocations = @ + 1,
            !.delays = Append(@, [armed |-> r.due - r.armedAt, waited |-> t - r.armedAt])]

\* fun settled with outcome o
Logged(r, o) == [r EXCEPT !.log = Append(@, o)]

RunIds == 1 .. Len(runs)
RECURSIVE FailsUpTo(_)
FailsUpTo(k) == IF k = 0 THEN 0 ELSE runs[k].fails + FailsUpTo(k - 1)
\* how often the operation has failed so far, over all runs
Failures == FailsUpTo(Len(runs))
Pending(k) == runs[k].pc \in {"calling", "delay"}
InFlight == {k \in RunIds : Pending(k)}
IntervalArgs == {Undefined} \cup {Some(i) : i \in 0 .. MaxInterval}

\* the program calls fetchWithRetry(op, interval) (interval may be omitted); the function
\* keeps no state between calls, so one call shows all it does
RetryCall(arg) ==
  /\ wrapper = "fetchWithRetry"
  /\ runs = <<>>
  /\ runs' = Append(runs, FetchWithRetry(arg))
  /\ UNCHANGED <<wrapper, timeVars, timeoutVars, authVars, cacheVars, heapVars, proxyVars, buildVars>>

\* op resolves with v: the call resolves with it
RetryResolves(k, v) ==
  /\ wrapper = "fetchWithRetry"
  /\ runs[k].pc = "calling"
  /\ runs' = [runs EXCEPT ![k] = Logged(OnSuccess(@, v), Some(v))]
  /\ UNCHANGED <<wrapper, timeVars, timeoutVars, authVars, cacheVars, heapVars, proxyVars, buildVars>>

\* the operation of run k (op, the token fetch or the data fetch) rejects
OpFails(k) ==
  /\ runs[k].pc = "calling"
  /\ Failures < (IF wrapper = "fetchWithRetry" THEN MaxFails ELSE MaxOpFails)
  /\ runs' = [runs EXCEPT ![k] = Logged(OnFailure(@, now), Undefined)]
  /\ UNCHANGED <<wrapper, timeVars, timeoutVars, authVars, cacheVars, heapVars, proxyVars, buildVars>>

\* the retry timer of run k fires, when it is due or later
RetryTimerFires(k) ==
  /\ runs[k].pc = "delay"
  /\ now' = Max(now, runs[k].due)
  /\ runs' = [runs EXCEPT ![k] = OnTimer(@, now')]
  /\ UNCHANGED <<wrapper, ticks, timeoutVars, authVars, cacheVars, heapVars, proxyVars, buildVars>>

\* time passes. fetchWithAuth reads no clock and arms no timer besides the retry timers
\* of its token fetch, which RetryTimerFires follows: no Tick is taken for it
Tick ==
  /\ ticks < MaxTicks
  /\ wrapper # "fetchWithAuth"
  /\ ticks' = ticks + 1
  /\ now' = now + TickMs
  /\ UNCHANGED <<wrapper, runs, timeoutVars, authVars, cacheVars, heapVars, proxyVars, buildVars>>

\* ------------------------------------------------------------ options objects
\* An options object is a record of the fields the wrappers read or write, an absent
\* field being Undefined (headers: 0, else the index of a Headers object).  An object is
\* known by its index in optionObjects: assigning a field changes the entry, a spread
\* appends a new one.  0 stands for no object (init is undefined).
BlankOptions ==
  [headers |-> 0, timeout |-> Undefined, proxyUrl |-> Undefined, agent |-> Undefined,
   signal |-> Undefined]
CallerSignal == "caller"
ControllerSignal == "controller"

\* the program builds the options it passes (none when init is Undefined)
CallerOptions(objs, init) ==
  IF init = Undefined THEN [objects |-> objs, ref |-> 0]
  ELSE [objects |-> Append(objs,
          [BlankOptions EXCEPT !.timeout = init[1].timeout, !.signal = init[1].signal,
             !.proxyUrl = IF "proxyUrl" \in DOMAIN init[1] THEN init[1].proxyUrl ELSE Undefined]),
        ref |-> Len(objs) + 1]

\* the fields of an object that fetchWithTimeout reads
OptionsValue(objs, ref) ==
  IF ref = 0 THEN Undefined
  ELSE Some([timeout |-> objs[ref].timeout, signal |-> objs[ref].signal])

\* init ? { ...init, [field]: value } : { [field]: value }
Spread(objs, ref, field, value) ==
  [objects |-> Append(objs, [(IF ref = 0 THEN BlankOptions ELSE objs[ref]) EXCEPT ![field] = value]),
   ref |-> Len(objs) + 1]

NewInit_InPlace(objs, ref) ==
  IF ref = 0 THEN Spread(objs, ref, "signal", Some(ControllerSignal))
  ELSE [objects |-> [objs EXCEPT ![ref].signal = Some(ControllerSignal)], ref |-> ref]

\* const newInit = init ? { ...init, signal } : { signal }
NewInit(objs, ref) == Spread(objs, ref, "signal", Some(ControllerSignal))

\* what is recorded of a call: the caller's object, its contents and the contents of its
\* Headers object when the call was made, and the objects handed to fetchWithTimeout
\* (by fetchWithAuth and fetchByProxy) and to the transport
Frame(fn, objs, hdrs, ref, inner, passed) ==
  [fn |-> fn, caller |-> ref,
   before |-> IF ref = 0 THEN BlankOptions ELSE objs[ref],
   beforeHeaders |-> IF ref = 0 THEN <<>>
                     ELSE IF objs[ref].headers = 0 THEN <<>> ELSE hdrs[objs[ref].headers],
   inner |-> inner, passed |-> passed]

\* ------------------------------------------------------------ fetchWithTimeout
\* A call of fetchWithTimeout is a record:
\*   pc        "pending": fetch(url, newInit) is awaited; "resolved" / "rejected"
\*   init      the options the caller passed (optional): [timeout: optional ms]
\*   timer     the timer armed by setTimeout: "pending", "fired" or "cleared"
\*   timers    how many timers the call has armed
\*   ms        the duration the timer was armed with
\*   armedAt   when it was armed
\*   aborts    how often controller.abort() has run
\*   lateAborts  how often it ran after the call had settled
\*   transport what the transport did: Undefined while pending, else
\*             [kind: "response" | "failure" | "aborted", value]
\*   result    what the call settled with (optional)
Statuses == {200, 401, 403}
Responses == {[status |-> s] : s \in Statuses}
\* failures of the transport that no abort caused
TransportFailures == {[class |-> "FetchError", message |-> "network"],
                      [class |-> "TypeError", message |-> "invalid url"]}
\* what a transport may reject with when its signal is aborted: node-fetch's AbortError,
\* or a failure of another class
AbortReports == {[class |-> "AbortError", message |-> "aborted"],
                 [class |-> "Error", message |-> "aborted"]}
TimeoutError == [class |-> "Error", message |-> "timeout"]
TimeoutInits ==
  {Undefined} \cup {Some([timeout |-> t, signal |-> g]) :
                      t \in {Undefined, Some(0), Some(1000)},
                      g \in {Undefined, Some(CallerSignal)}}
\* the JavaScript build is followed for its cleanup, which reads none of the options:
\* its calls are made without options or with a timeout
JsTimeoutInits == {Undefined, Some([timeout |-> Some(1000), signal |-> Undefined])}

\* init?.timeout || 5000
TimeoutOf(init) ==
  IF init = Undefined \/ init[1].timeout = Undefined \/ init[1].timeout[1] = 0
  THEN DefaultTimeout ELSE init[1].timeout[1]

\* fetchWithTimeout(url, init) up to its await: one timer armed, fetch started
FetchWithTimeout(init, t) ==
  [pc |-> "pending", init |-> init, timer |-> "pending", timers |-> 1,
   ms |-> TimeoutOf(init), armedAt |-> t, aborts |-> 0, lateAborts |-> 0,
   transport |-> Undefined, result |-> Undefined]

ClearTimeout_Leak(c) == c

\* finally { clearTimeout(timeout) }: a pending timer is cancelled
ClearTimeout(c) == IF c.timer = "pending" THEN [c EXCEPT !.timer = "cleared"] ELSE c

\* JavaScript build: finally { clearImmediate(timeout) }, timeout being the Timeout
\* object setTimeout returned.  clearImmediate is specified for Immediate objects only:
\* whether it cancels a timer depends on the runtime
ClearImmediate(c) == IF clearImmediateCancels THEN ClearTimeout(c) ELSE c

\* the finally block of the build in use
Finally(c) == IF wrapper = JsFetchWithTimeout THEN ClearImmediate(c) ELSE ClearTimeout(c)

\* const res = await fetch(url, newInit); return res;
OnResponse(c, r) == Finally([c EXCEPT !.pc = "resolved", !.result = Some(r)])

OnTransportError_AlwaysTimeout(c, err) ==
  [c EXCEPT !.pc = "rejected", !.result = Some(TimeoutError),
            !.timer = IF c.timer = "pending" THEN "cleared" ELSE @]

\* catch (err): an AbortError becomes Error("timeout"), any other failure is passed on
OnTransportError(c, err) ==
  Finally([c EXCEPT !.pc = "rejected",
                         !.result = Some(IF err.class = "AbortError" THEN TimeoutError ELSE err)])

\* the timer's callback: controller.abort()
OnAbortTimer(c) ==
  [c EXCEPT !.timer = "fired", !.aborts = @ + 1,
            !.lateAborts = IF c.pc = "pending" THEN @ ELSE @ + 1]

TimeoutIds == 1 .. Len(timeoutCalls)

\* the program calls fetchWithTimeout(url, init)
TimeoutCall(init) ==
  /\ wrapper \in {"fetchWithTimeout", JsFetchWithTimeout}
  /\ wrapper = JsFetchWithTimeout => init \in JsTimeoutInits
  /\ Len(timeoutCalls) < MaxTimeoutCalls
  /\ timeoutCalls' = Append(timeoutCalls, FetchWithTimeout(init, now))
  /\ LET caller == CallerOptions(optionObjects, init)
         derived == NewInit(caller.objects, caller.ref)
     IN /\ optionObjects' = derived.objects
        /\ frames' = Append(frames, Frame("fetchWithTimeout", caller.objects, headerObjects,
                                          caller.ref, <<>>, <<derived.ref>>))
  /\ UNCHANGED <<wrapper, timeVars, runs, authVars, cacheVars, headerObjects, proxyVars, buildVars>>

\* the transport resolves with response r
TransportResolves(c, r) ==
  /\ timeoutCalls[c].pc = "pending"
  /\ timeoutCalls' = [timeoutCalls EXCEPT
       ![c] = OnResponse([@ EXCEPT !.transport = Some([kind |-> "response", value |-> r])], r)]
  /\ UNCHANGED <<wrapper, timeVars, runs, authVars, cacheVars, heapVars, proxyVars, buildVars>>

\* the transport rejects with failure e, which no abort caused
TransportRejects(c, e) ==
  /\ timeoutCalls[c].pc = "pending"
  /\ timeoutCalls' = [timeoutCalls EXCEPT
       ![c] = OnTransportError([@ EXCEPT !.transport = Some([kind |-> "failure", value |-> e])], e)]
  /\ UNCHANGED <<wrapper, timeVars, runs, authVars, cacheVars, heapVars, proxyVars, buildVars>>

\* the timer fires, when it is due or later: controller.abort() runs; a pending
\* transport rejects with what it reports for an aborted operation, and the call's
\* catch and finally run
AbortTimerFires(c, e) ==
  /\ timeoutCalls[c].timer = "pending"
  /\ now' = Max(now, timeoutCalls[c].armedAt + timeoutCalls[c].ms)
  /\ timeoutCalls' = [timeoutCalls EXCEPT
       ![c] = IF @.pc = "pending"
              THEN OnTransportError(
                     [OnAbortTimer(@) EXCEPT !.transport = Some([kind |-> "aborted", value |-> e])], e)
              ELSE OnAbortTimer(@)]
  /\ UNCHANGED <<wrapper, ticks, runs, authVars, cacheVars, heapVars, proxyVars, buildVars>>

\* ------------------------------------------------------------ fetchByProxy
\* A call of fetchByProxy is a record:
\*   init    the options the caller passed (optional)
\*   caller  the caller's options object (0: none)
\*   threw   the exception thrown before fetchWithTimeout was called (optional)
\*   inner   the fetchWithTimeout call it awaits (index in timeoutCalls, 0: none)
\* The call settles as its fetchWithTimeout call does: return await fetchWithTimeout(..).
ProxyUrl == "http://127.0.0.1:3000"
ProxyInits ==
  {Undefined} \cup {Some([timeout |-> t, signal |-> Undefined, proxyUrl |-> u]) :
                      t \in {Undefined, Some(1000)}, u \in {Undefined, Some(ProxyUrl)}}
\* init.proxyUrl with init undefined
NoOptionsError == [class |-> "TypeError", message |-> "init is undefined"]
\* new HttpsProxyAgent(undefined)
NoProxyUrlError == [class |-> "TypeError", message |-> "no proxy url"]

\* new HttpsProxyAgent(proxyUrl): the constructor of https-proxy-agent throws when it is
\* given no URL
HttpsProxyAgent(proxyUrl) ==
  IF proxyUrl = Undefined THEN [threw |-> Some(NoProxyUrlError), agent |-> Undefined]
                          ELSE [threw |-> Undefined, agent |-> proxyUrl]

AttachAgent_Unchecked(objs, ref) ==
  IF ref = 0 THEN [threw |-> Undefined, objects |-> objs]
  ELSE [threw |-> Undefined, objects |-> [objs EXCEPT ![ref].agent = objs[ref].proxyUrl]]

\* const proxyUrl = init.proxyUrl; const agent = new HttpsProxyAgent(proxyUrl);
\* init.agent = agent
AttachAgent(objs, ref) ==
  IF ref = 0 THEN [threw |-> Some(NoOptionsError), objects |-> objs]
  ELSE LET made == HttpsProxyAgent(objs[ref].proxyUrl)
       IN IF made.threw # Undefined
          THEN [threw |-> made.threw, objects |-> objs]
          ELSE [threw |-> Undefined, objects |-> [objs EXCEPT ![ref].agent = made.agent]]

ProxyIds == 1 .. Len(proxyCalls)
\* const res = await fetchWithTimeout(url, init); return res: the call settles as its
\* fetchWithTimeout call does; an exception thrown before that call rejects it
ProxyPc(p) ==
  IF proxyCalls[p].threw # Undefined THEN "rejected" ELSE timeoutCalls[proxyCalls[p].inner].pc
ProxyResult(p) ==
  IF proxyCalls[p].threw # Undefined THEN proxyCalls[p].threw
  ELSE timeoutCalls[proxyCalls[p].inner].result

\* the program calls fetchByProxy(url, init)
ProxyCall(init) ==
  /\ wrapper = "fetchByProxy"
  /\ Len(proxyCalls) < MaxTimeoutCalls
  /\ LET caller == CallerOptions(optionObjects, init)
         step == AttachAgent(caller.objects, caller.ref)
         derived == NewInit(step.objects, caller.ref)
     IN IF step.threw # Undefined
        THEN /\ proxyCalls' = Append(proxyCalls,
                  [init |-> init, caller |-> caller.ref, threw |-> step.threw, inner |-> 0])
             /\ optionObjects' = step.objects
             /\ frames' = Append(frames, Frame("fetchByProxy", caller.objects, headerObjects,
                                               caller.ref, <<>>, <<>>))
             /\ UNCHANGED timeoutCalls
        ELSE /\ proxyCalls' = Append(proxyCalls,
                  [init |-> init, caller |-> caller.ref, threw |-> Undefined,
                   inner |-> Len(timeoutCalls) + 1])
             /\ timeoutCalls' = Append(timeoutCalls,
                  FetchWithTimeout(OptionsValue(step.objects, caller.ref), now))
             /\ optionObjects' = derived.objects
             /\ frames' = Append(frames, Frame("fetchByProxy", caller.objects, headerObjects,
                                               caller.ref, <<caller.ref>>, <<derived.ref>>))
  /\ UNCHANGED <<wrapper, timeVars, runs, authVars, cacheVars, headerObjects, buildVars>>

\* ------------------------------------------------------------ addHeader
\* Headers keeps header names case-insensitively (in lower case)
Lower(key) == IF key = "Authorization" THEN "authorization" ELSE key
NoHeaders == <<>>
\* the options a caller of the wrapped request function may pass
AuthInits == {Undefined, Some([headers |-> ("x-id" :> "1"), timeout |-> Some(1000)])}

\* new Headers(init?.headers); newHeaders.set(key, value);
\* init ? { ...init, headers: newHeaders } : { headers: newHeaders }
AddHeader(init, key, value) ==
  LET newHeaders == (Lower(key) :> value) @@ (IF init = Undefined THEN NoHeaders ELSE init[1].headers)
  IN IF init # Undefined THEN [init[1] EXCEPT !.headers = newHeaders]
                         ELSE [headers |-> newHeaders]

\* new Headers(init?.headers): a new Headers object holding a copy of the entries
NewHeaders(hdrs, src) ==
  [headers |-> Append(hdrs, IF src = 0 THEN NoHeaders ELSE hdrs[src]), ref |-> Len(hdrs) + 1]

\* newHeaders.set(key, value)
HeadersSet(hdrs, h, key, value) == [hdrs EXCEPT ![h] = (Lower(key) :> value) @@ @]

\* addHeader on objects: the Headers object and the options object it returns are new
AddHeaderAt(objs, hdrs, ref, key, value) ==
  LET made == NewHeaders(hdrs, IF ref = 0 THEN 0 ELSE objs[ref].headers)
      derived == Spread(objs, ref, "headers", made.ref)
  IN [objects |-> derived.objects,
      headers |-> HeadersSet(made.headers, made.ref, key, value), ref |-> derived.ref]

\* ------------------------------------------------------------ fetchWithAuth
\* A call of the function _ returned by fetchWithAuth(fun) is a record:
\*   pc        "attempt1" / "attempt2": the first request / the retry is awaited;
\*             "refreshing": update() is awaited; "resolved" / "rejected"
\*   init      the options the caller passed (optional)
\*   requests  the options passed to fetchWithTimeout, one per attempt
\*   responses the statuses of the responses received, one per answered attempt
\*   awaited   the runs (indices of runs) whose promise the call has awaited in update()
\*   gens      per attempt, how many refreshes had completed when it was issued
\*   overlap   no other call had returned when this one started
\*   result    what the call settled with (optional): a response or a failure
AuthFailures == {401, 403}
\* the statuses the server answers a request with: the code treats 401 and 403 alike
\* ([401, 403].includes), and a behaviour follows a server that refuses with one of them
ServerStatuses == {200, authRefusal}
\* what the token fetch of run k may resolve with: the code never inspects a token, so
\* every fetch is given a token of its own
Tokens(k) == {<<k>>}
\* what an awaited fetchWithTimeout may reject with; _ passes any failure on untouched
AttemptFailures == {TimeoutError, [class |-> "FetchError", message |-> "network"]}
AuthIds == 1 .. Len(authCalls)
Settled(c) == c.pc \in {"resolved", "rejected"}
\* the refreshes completed so far
Gen == Cardinality({k \in RunIds : runs[k].pc = "resolved"})
Credential(req) == req.headers["authorization"]

\* the options object the program passes to every call of _ (0: it passes none)
AuthCaller == IF authInit = Undefined THEN 0 ELSE 1

\* fetchWithTimeout(url, addHeader({ init, key: "Authorization", value: Authorization })):
\* the object addHeader returns (inner) and the one fetchWithTimeout derives from it and
\* hands to the transport (passed)
Attempt(objs, hdrs, ref, cred) ==
  LET withHeader == AddHeaderAt(objs, hdrs, ref, "Authorization", cred)
      derived == NewInit(withHeader.objects, withHeader.ref)
  IN [objects |-> derived.objects, headers |-> withHeader.headers,
      inner |-> withHeader.ref, passed |-> derived.ref]

\* the retries of the calls c, c + 1, ... that awaited run k, in that order
RECURSIVE RetryAttempts(_, _, _, _)
RetryAttempts(c, heap, k, cred) ==
  IF c > Len(authCalls) THEN heap
  ELSE IF authCalls[c].pc = "refreshing" /\ authCalls[c].awaited[Len(authCalls[c].awaited)] = k
       THEN LET a == Attempt(heap.objects, heap.headers, AuthCaller, cred)
            IN RetryAttempts(c + 1,
                 [objects |-> a.objects, headers |-> a.headers,
                  frames |-> [heap.frames EXCEPT ![c].inner = Append(@, a.inner),
                                                 ![c].passed = Append(@, a.passed)]],
                 k, cred)
       ELSE RetryAttempts(c + 1, heap, k, cred)

\* _(url, init) up to its first await
AuthRequest(init, cred, gen, overlap) ==
  [pc |-> "attempt1", init |-> init, requests |-> <<AddHeader(init, "Authorization", cred)>>,
   responses |-> <<>>, awaited |-> <<>>, gens |-> <<gen>>, overlap |-> overlap,
   result |-> Undefined]

\* return res / return fetchWithTimeout(...): the call resolves with the response
Resolve(c, s) ==
  [c EXCEPT !.pc = "resolved", !.responses = Append(@, s), !.result = Some([status |-> s])]

\* await update(), seen from the call: it waits for the promise of runs[k]
AwaitUpdate(c, s, k) ==
  [c EXCEPT !.pc = "refreshing", !.responses = Append(@, s), !.awaited = Append(@, k)]

RetryRequest_Stale(c, cred, gen) ==
  [c EXCEPT !.pc = "attempt2", !.requests = Append(@, c.requests[1]), !.gens = Append(@, gen)]

\* after await update(): fetchWithTimeout(url, addHeader({init, ..., value: Authorization}))
RetryRequest(c, cred, gen) ==
  [c EXCEPT !.pc = "attempt2",
            !.requests = Append(@, AddHeader(c.init, "Authorization", cred)),
            !.gens = Append(@, gen)]

AuthUpdate_NoJoin(c, s) ==
  /\ Len(runs) < MaxRuns
  /\ runs' = Append(runs, FetchWithRetry(Undefined))
  /\ authPromise' = Len(runs) + 1
  /\ authCalls' = [authCalls EXCEPT ![c] = AwaitUpdate(@, s, Len(runs) + 1)]

\* update() called by call c after status s: if (promise) return promise;
\* else promise = fetchWithRetry(fun), which invokes fun
AuthUpdate(c, s) ==
  IF authPromise # 0
  THEN /\ authCalls' = [authCalls EXCEPT ![c] = AwaitUpdate(@, s, authPromise)]
       /\ UNCHANGED <<runs, authPromise>>
  ELSE /\ Len(runs) < MaxRuns
       /\ runs' = Append(runs, FetchWithRetry(Undefined))
       /\ authPromise' = Len(runs) + 1
       /\ authCalls' = [authCalls EXCEPT ![c] = AwaitUpdate(@, s, Len(runs) + 1)]

\* the program calls the wrapped request function; the calls derive their requests
\* independently of each other, so the program passes the same options each time
AuthCall ==
  /\ wrapper = "fetchWithAuth"
  /\ Len(authCalls) < MaxCalls
  /\ authCalls' = Append(authCalls,
       AuthRequest(authInit, Authorization, Gen, \A c \in AuthIds : ~Settled(authCalls[c])))
  /\ LET a == Attempt(optionObjects, headerObjects, AuthCaller, Authorization)
     IN /\ optionObjects' = a.objects
        /\ headerObjects' = a.headers
        /\ frames' = Append(frames, Frame("fetchWithAuth", optionObjects, headerObjects,
                                          AuthCaller, <<a.inner>>, <<a.passed>>))
  /\ UNCHANGED <<wrapper, timeVars, runs, timeoutVars, authInit, authRefusal, Authorization, authPromise,
                 cacheVars, proxyVars, buildVars>>

\* the first request is answered with status s:
\* if ([401, 403].includes(res.status)) await update(); else return res
FirstResponse(c, s) ==
  /\ authCalls[c].pc = "attempt1"
  /\ IF s \in AuthFailures
     THEN AuthUpdate(c, s)
     ELSE /\ authCalls' = [authCalls EXCEPT ![c] = Resolve(@, s)]
          /\ UNCHANGED <<runs, authPromise>>
  /\ UNCHANGED <<wrapper, timeVars, timeoutVars, authInit, authRefusal, Authorization, cacheVars, heapVars, proxyVars, buildVars>>

RetryResponse_Loop(c, s) ==
  /\ authCalls[c].pc = "attempt2"
  /\ IF s \in AuthFailures
     THEN AuthUpdate(c, s)
     ELSE /\ authCalls' = [authCalls EXCEPT ![c] = Resolve(@, s)]
          /\ UNCHANGED <<runs, authPromise>>
  /\ UNCHANGED <<wrapper, timeVars, timeoutVars, authInit, authRefusal, Authorization, cacheVars, heapVars, proxyVars, buildVars>>

\* the retry is answered with status s: the call resolves with that response
RetryResponse(c, s) ==
  /\ authCalls[c].pc = "attempt2"
  /\ authCalls' = [authCalls EXCEPT ![c] = Resolve(@, s)]
  /\ UNCHANGED <<wrapper, timeVars, runs, timeoutVars, authInit, authRefusal, Authorization, authPromise,
                 cacheVars, heapVars, proxyVars, buildVars>>

AttemptFails_ClearsCredential(c, e) ==
  /\ authCalls[c].pc \in {"attempt1", "attempt2"}
  /\ authCalls' = [authCalls EXCEPT ![c] = [@ EXCEPT !.pc = "rejected", !.result = Some(e)]]
  /\ Authorization' = EmptyString
  /\ UNCHANGED <<wrapper, timeVars, runs, timeoutVars, authInit, authRefusal, authPromise,
                 cacheVars, heapVars, proxyVars, buildVars>>

\* the awaited fetchWithTimeout rejects (timeout or transport failure): so does the call
AttemptFails(c, e) ==
  /\ authCalls[c].pc \in {"attempt1", "attempt2"}
  /\ authCalls' = [authCalls EXCEPT ![c] = [@ EXCEPT !.pc = "rejected", !.result = Some(e)]]
  /\ UNCHANGED <<wrapper, timeVars, runs, timeoutVars, authInit, authRefusal, Authorization, authPromise,
                 cacheVars, heapVars, proxyVars, buildVars>>

Refreshed_Unassigned(old, v) == old

\* Authorization = await promise
Refreshed(old, v) == v

\* the token fetch of run k resolves with token v: the run resolves; update() continues in
\* the call that started it (Authorization = await promise; promise = null); then every
\* call awaiting the run issues its retry
TokenFetched(k, v) ==
  /\ wrapper = "fetchWithAuth"
  /\ runs[k].pc = "calling"
  /\ runs' = [runs EXCEPT ![k] = Logged(OnSuccess(@, v), Some(v))]
  /\ Authorization' = Refreshed(Authorization, v)
  /\ authPromise' = 0
  /\ authCalls' = [c \in AuthIds |->
       IF authCalls[c].pc = "refreshing" /\ authCalls[c].awaited[Len(authCalls[c].awaited)] = k
       THEN RetryRequest(authCalls[c], Authorization', Gen')
       ELSE authCalls[c]]
  /\ LET heap == RetryAttempts(1, [objects |-> optionObjects, headers |-> headerObjects,
                                   frames |-> frames], k, Authorization')
     IN /\ optionObjects' = heap.objects
        /\ headerObjects' = heap.headers
        /\ frames' = heap.frames
  /\ UNCHANGED <<wrapper, timeVars, timeoutVars, authInit, authRefusal, cacheVars, proxyVars, buildVars>>

\* ------------------------------------------------------------ fixedRefresh
\* A call of the accessor _ returned by fixedRefresh(fun, interval) is a record:
\*   pc        "awaiting": update() is awaited; "resolved"
\*   at        Date.now() at the call
\*   sawTs, sawRes  lastUpdateTimestamp and res as the call found them
\*   gen       how many refreshes had completed at the call
\*   invoked   how often fun had been invoked at the call
\*   triggered the call found the cache empty or stale and awaited update()
\*   awaited   the run whose promise it awaited (0: none)
\*   result    the value it resolved to (optional, as res is)
\* the interval a program may pass to fixedRefresh, in seconds, or none
CacheIntervals == {Undefined, Some(0), Some(1)}
CacheIds == 1 .. Len(cacheCalls)
RECURSIVE InvocationsUpTo(_)
InvocationsUpTo(k) == IF k = 0 THEN 0 ELSE runs[k].invocations + InvocationsUpTo(k - 1)
\* how often the operation has been invoked so far, over all runs
Invocations == InvocationsUpTo(Len(runs))

\* interval = 60 * 5
RefreshIntervalOf(arg) == IF arg = Undefined THEN DefaultRefreshInterval ELSE arg[1]

\* !res: undefined and 0 are falsy
Falsy(x) == x = Undefined \/ x[1] = 0

\* Date.now() - lastUpdateTimestamp >= interval * 1000 || !res
NeedsUpdate(t, ts, r, interval) == t - ts >= RefreshIntervalOf(interval) * 1000 \/ Falsy(r)

AccessorCall(t, k, triggered) ==
  [pc |-> IF triggered THEN "awaiting" ELSE "resolved", at |-> t,
   sawTs |-> lastUpdateTimestamp, sawRes |-> res, gen |-> Gen, invoked |-> Invocations,
   triggered |-> triggered, awaited |-> k,
   result |-> IF triggered THEN Undefined ELSE res]

CacheUpdate_NoJoin ==
  /\ Len(runs) < MaxRuns
  /\ runs' = Append(runs, FetchWithRetry(Undefined))
  /\ cachePromise' = Len(runs) + 1
  /\ cacheCalls' = Append(cacheCalls, AccessorCall(now, Len(runs) + 1, TRUE))

\* await update() in an accessor call: if (promise) return promise;
\* else promise = fetchWithRetry(fun), which invokes fun
CacheUpdate ==
  IF cachePromise # 0
  THEN /\ cacheCalls' = Append(cacheCalls, AccessorCall(now, cachePromise, TRUE))
       /\ UNCHANGED <<runs, cachePromise>>
  ELSE /\ Len(runs) < MaxRuns
       /\ runs' = Append(runs, FetchWithRetry(Undefined))
       /\ cachePromise' = Len(runs) + 1
       /\ cacheCalls' = Append(cacheCalls, AccessorCall(now, Len(runs) + 1, TRUE))

\* the program calls the accessor: update() is awaited if the cache is stale or res is
\* falsy, else res is returned
CacheCall ==
  /\ wrapper = "fixedRefresh"
  /\ Len(cacheCalls) < MaxCalls
  /\ IF NeedsUpdate(now, lastUpdateTimestamp, res, cacheInterval)
     THEN CacheUpdate
     ELSE /\ cacheCalls' = Append(cacheCalls, AccessorCall(now, 0, FALSE))
          /\ UNCHANGED <<runs, cachePromise>>
  /\ UNCHANGED <<wrapper, timeVars, timeoutVars, authVars, res, lastUpdateTimestamp,
                 cacheInterval, updates, heapVars, proxyVars, buildVars>>

Stamp_Stale(old, t) == old

\* lastUpdateTimestamp = Date.now()
Stamp(old, t) == t

\* the data fetch of run k resolves with v: the run resolves; update() continues in the
\* call that started it (res = await promise; lastUpdateTimestamp = Date.now();
\* promise = null); then every call awaiting the run returns res
DataFetched(k, v) ==
  /\ wrapper = "fixedRefresh"
  /\ runs[k].pc = "calling"
  /\ runs' = [runs EXCEPT ![k] = Logged(OnSuccess(@, v), Some(v))]
  /\ res' = Some(v)
  /\ lastUpdateTimestamp' = Stamp(lastUpdateTimestamp, now)
  /\ cachePromise' = 0
  /\ updates' = Append(updates, [value |-> v, at |-> now])
  /\ cacheCalls' = [c \in CacheIds |->
       IF cacheCalls[c].pc = "awaiting" /\ cacheCalls[c].awaited = k
       THEN [cacheCalls[c] EXCEPT !.pc = "resolved", !.result = res']
       ELSE cacheCalls[c]]
  /\ UNCHANGED <<wrapper, timeVars, timeoutVars, authVars, cacheInterval, heapVars, proxyVars, buildVars>>

\* ------------------------------------------------------------ claims: fetchWithRetry
Run(k) == runs[k]
Last(q) == q[Len(q)]
AllFailed(log) == \A i \in 1 .. Len(log) : log[i] = Undefined

\* C1 (as claimed): a call of fetchWithRetry(op, interval) whose op failed N times and then
\* succeeded has resolved to that success value after exactly N retry delays, and each
\* of the N delays lasted at least the configured interval (5 s if none was passed).
C1_EveryDelayKeepsInterval ==
  \A k \in RunIds :
    (wrapper = "fetchWithRetry" /\ Run(k).pc = "resolved") =>
      /\ Run(k).result = Run(k).log[Len(Run(k).log)]
      /\ Len(Run(k).delays) = Run(k).fails
      /\ \A i \in 1 .. Len(Run(k).delays) :
           Run(k).delays[i].waited >= 1000 * IntervalOf(Run(k).configured)

\* C10: the promise of fetchWithRetry never rejects; it resolves only with the value of
\* the first successful invocation of the operation, every earlier invocation having
\* failed, and an operation that failed N times was invoked exactly N + 1 times.
C10_RetryNeverRejects ==
  \A k \in RunIds :
    /\ Run(k).pc # "rejected"
    /\ Run(k).pc = "resolved" =>
         /\ Run(k).invocations = Len(Run(k).log)
         /\ Run(k).invocations = Run(k).fails + 1
         /\ AllFailed(SubSeq(Run(k).log, 1, Len(Run(k).log) - 1))
         /\ Run(k).log[Len(Run(k).log)] # Undefined
         /\ Run(k).result = Run(k).log[Len(Run(k).log)]
    /\ Run(k).pc # "resolved" =>
         /\ Run(k).result = Undefined
         /\ AllFailed(Run(k).log)
         /\ Run(k).fails = Len(Run(k).log)

\* a call that resolved after its operation had failed twice
C10_Witness ==
  \E k \in RunIds :
    wrapper = "fetchWithRetry" /\ Run(k).pc = "resolved" /\ Run(k).fails = 2

\* the one call of fetchWithRetry the program makes under RetrySpec
RetryStarted == runs # <<>>
RetryPc == IF runs = <<>> THEN "none" ELSE Run(1).pc
RetryFails == IF runs = <<>> THEN 0 ELSE Run(1).fails
RetryInvocations == IF runs = <<>> THEN 0 ELSE Run(1).invocations

\* C17: with timers that fire and an operation that settles, a call whose operation has
\* failed on every invocation so far has not settled: it is waiting for the operation or
\* for its retry timer; after the n-th failure, for every n, the timer fires and the
\* operation is invoked for the (n + 1)-th time; the call resolves once the operation
\* succeeds, so a call whose operation does not fail forever eventually resolves.
C17_RetriesUntilSuccess ==
  /\ [](RetryStarted /\ AllFailed(Run(1).log) => RetryPc \in {"calling", "delay"})
  /\ [](RetryPc = "resolved" => Run(1).log # <<>> /\ Last(Run(1).log) # Undefined)
  /\ \A n \in 1 .. MaxFails :
       (RetryPc = "delay" /\ RetryFails = n) ~> (RetryPc = "calling" /\ RetryInvocations = n + 1)
  /\ (RetryPc = "calling") ~> (RetryPc \in {"resolved", "delay"})
  /\ RetryStarted ~> (RetryPc = "resolved")

\* the operation has failed twice and has been invoked a third time
C17_Witness ==
  /\ wrapper = "fetchWithRetry"
  /\ RetryPc = "calling"
  /\ RetryFails = 2
  /\ RetryInvocations = 3

\* ------------------------------------------------------------ claims: fetchWithTimeout
TCall(c) == timeoutCalls[c]
Aborted(c) == TCall(c).transport # Undefined /\ TCall(c).transport[1].kind = "aborted"
Answered(c) == TCall(c).transport # Undefined /\ TCall(c).transport[1].kind = "response"

\* C8 (as claimed): whenever the abort timer fires before the transport settles, the call
\* rejects with the error "timeout", whatever failure the transport reports for the
\* aborted operation.
C8_AbortIsTimeout ==
  \A c \in TimeoutIds :
    Aborted(c) => TCall(c).pc = "rejected" /\ TCall(c).result = Some(TimeoutError)

\* C9: every call has armed exactly one timer; once the call has settled the timer is no
\* longer pending and controller.abort() has never run after settlement; a response of
\* the transport is what the call resolved with.
C9_TimerHygiene ==
  wrapper # JsFetchWithTimeout =>
    \A c \in TimeoutIds :
      /\ TCall(c).timers = 1
      /\ TCall(c).pc # "pending" => TCall(c).timer # "pending"
      /\ TCall(c).lateAborts = 0
      /\ Answered(c) =>
           TCall(c).pc = "resolved" /\ TCall(c).result = Some(TCall(c).transport[1].value)

\* a call that resolved with the transport's response, its timer cancelled
C9_Witness ==
  /\ wrapper = "fetchWithTimeout"
  /\ \E c \in TimeoutIds :
       Answered(c) /\ TCall(c).pc = "resolved" /\ TCall(c).timer = "cleared"

\* C19 (as claimed): in the JavaScript build, once a fetchWithTimeout call has settled
\* the timer it armed is no longer pending, and controller.abort() never runs after the
\* call has settled.
C19_JsTimerHygiene ==
  wrapper = JsFetchWithTimeout =>
    \A c \in TimeoutIds :
      /\ TCall(c).pc # "pending" => TCall(c).timer # "pending"
      /\ TCall(c).lateAborts = 0

\* C20 (as claimed): the timer of a call is armed with exactly the timeout its options
\* carry, 0 included, and with 5000 ms only when the options carry no timeout or no
\* options are passed.
C20_ArmedWithGivenTimeout ==
  \A c \in TimeoutIds :
    TCall(c).ms = IF TCall(c).init = Undefined THEN DefaultTimeout
                  ELSE IF TCall(c).init[1].timeout = Undefined THEN DefaultTimeout
                  ELSE TCall(c).init[1].timeout[1]

Failed(c) == TCall(c).transport # Undefined /\ TCall(c).transport[1].kind = "failure"

\* C16: a call whose transport failed before the abort timer fired, with a failure the
\* abort did not cause, has rejected with that very failure, not with the "timeout"
\* error; it has not resolved, and its timer did not fire while it was pending.
C16_FailurePassedOn ==
  \A c \in TimeoutIds :
    Failed(c) =>
      /\ TCall(c).pc = "rejected"
      /\ TCall(c).result = Some(TCall(c).transport[1].value)
      /\ TCall(c).result # Some(TimeoutError)
      /\ TCall(c).aborts = TCall(c).lateAborts

\* a call given a timeout whose transport failed with a network failure
C16_Witness ==
  \E c \in TimeoutIds :
    /\ Failed(c)
    /\ TCall(c).transport[1].value.class = "FetchError"
    /\ TCall(c).init # Undefined
    /\ TCall(c).pc = "rejected"

\* ------------------------------------------------------------ claims: fetchWithAuth
ACall(c) == authCalls[c]
\* every call made so far overlapped the others and had 401 as its first response, and
\* the token fetch never failed
AllConcurrent401 ==
  /\ wrapper = "fetchWithAuth"
  /\ authCalls # <<>>
  /\ Failures = 0
  /\ \A c \in AuthIds :
       ACall(c).overlap /\ ACall(c).responses # <<>> /\ ACall(c).responses[1] = 401
\* every retry issued so far carries the token the first run produced
RetriedWithFirstToken ==
  \A c \in AuthIds :
    Len(ACall(c).requests) >= 2 =>
      Run(1).pc = "resolved" /\ Credential(ACall(c).requests[2]) = Run(1).result[1]

\* C2 (as claimed): for N concurrent calls that all receive 401 on their first attempt,
\* under every interleaving of the first responses with the completion of the token
\* fetch, the token fetch is invoked exactly once and every call is retried with the new
\* credential.
C2_TokenFetchedOnce == AllConcurrent401 => Invocations = 1 /\ RetriedWithFirstToken

\* C6: a call makes at most two request attempts and awaits at most one refresh; when
\* the retry has been answered, with 401 or 403 as with any status, the call has resolved
\* to that response.
C6_AtMostTwoAttempts ==
  \A c \in AuthIds :
    /\ Len(ACall(c).requests) <= 2
    /\ Len(ACall(c).awaited) <= 1
    /\ Len(ACall(c).responses) = 2 =>
         /\ ACall(c).pc = "resolved"
         /\ ACall(c).result = Some([status |-> ACall(c).responses[2]])

\* a call whose retry was rejected with 401 or 403 and which resolved to that response
C6_Witness ==
  \E c \in AuthIds :
    /\ Len(ACall(c).responses) = 2
    /\ ACall(c).responses[2] \in AuthFailures
    /\ ACall(c).pc = "resolved"

\* C7: a call whose first response was 401 or 403 issues no retry while the refresh it
\* awaits is in flight; its retry is issued after that refresh completed and carries the
\* token that refresh produced, not the credential of the first attempt; a lone call
\* answered 403 and then 200 resolves to the 200 response, the token fetch (if it never
\* failed) invoked once.
C7_RetryCarriesRefreshedCredential ==
  \A c \in AuthIds :
    /\ ACall(c).pc = "refreshing" =>
         Len(ACall(c).requests) = 1 /\ Pending(Last(ACall(c).awaited))
    /\ Len(ACall(c).requests) >= 2 =>
         /\ ACall(c).responses[1] \in AuthFailures
         /\ ACall(c).awaited # <<>>
         /\ Run(Last(ACall(c).awaited)).pc = "resolved"
         /\ ACall(c).gens[2] > ACall(c).gens[1]
         /\ ACall(c).gens[2] >= Last(ACall(c).awaited)
         /\ Credential(ACall(c).requests[2]) = Run(Last(ACall(c).awaited)).result[1]
         /\ Credential(ACall(c).requests[2]) # Credential(ACall(c).requests[1])
    /\ (Len(authCalls) = 1 /\ ACall(c).responses = <<403, 200>>) =>
         /\ ACall(c).pc = "resolved"
         /\ ACall(c).result = Some([status |-> 200])
         /\ Failures = 0 => Invocations = 1

\* a lone call answered 403, then 200
C7_Witness ==
  /\ Len(authCalls) = 1
  /\ ACall(1).responses = <<403, 200>>
  /\ Failures = 0

\* the credential after g completed refreshes: "" at first, then the token of refresh g
CredentialAfter(g) == IF g = 0 THEN EmptyString ELSE Run(g).result[1]

\* C15: every run of the token fetch was started for a call whose first response was 401
\* or 403; a call whose first response had another status made one request and resolved
\* to that response; the shared credential is "" until a refresh completes and from then on
\* the token the latest completed refresh returned, and every request attempt carries the
\* credential as it was when the attempt was started.
C15_RefreshOnlyOnAuthFailure ==
  wrapper = "fetchWithAuth" =>
    /\ \A k \in RunIds :
         \E c \in AuthIds :
           /\ ACall(c).responses # <<>>
           /\ ACall(c).responses[1] \in AuthFailures
           /\ \E m \in 1 .. Len(ACall(c).awaited) : ACall(c).awaited[m] = k
    /\ \A c \in AuthIds :
         /\ (ACall(c).responses # <<>> /\ ACall(c).responses[1] \notin AuthFailures) =>
              /\ Len(ACall(c).requests) = 1
              /\ ACall(c).awaited = <<>>
              /\ ACall(c).pc = "resolved"
              /\ ACall(c).result = Some([status |-> ACall(c).responses[1]])
         /\ \A m \in 1 .. Len(ACall(c).requests) :
              Credential(ACall(c).requests[m]) = CredentialAfter(ACall(c).gens[m])
    /\ \A k \in RunIds : Run(k).pc = "resolved" <=> k <= Gen
    /\ Authorization = CredentialAfter(Gen)

\* a call made after a refresh completed: it carried the new token, was answered 200 and
\* resolved to that response
C15_Witness ==
  \E c \in AuthIds :
    /\ ACall(c).responses = <<200>>
    /\ ACall(c).gens[1] = 1
    /\ Credential(ACall(c).requests[1]) = Run(1).result[1]
    /\ ACall(c).pc = "resolved"

\* C18: a call of the wrapped request function is rejected only with the failure of one
\* of its request attempts; one whose first attempt failed made no second request and
\* awaited no refresh; one whose retry failed leaves the credential of the latest
\* refresh in place; and the step that rejects a call changes neither the credential, nor
\* the in-flight slot, nor the runs of the token fetch.
C18_AttemptFailureRejects ==
  /\ [](\A c \in AuthIds :
          ACall(c).pc = "rejected" =>
            /\ \E e \in AttemptFailures : ACall(c).result = Some(e)
            /\ ACall(c).responses = <<>> =>
                 Len(ACall(c).requests) = 1 /\ ACall(c).awaited = <<>>
            /\ ACall(c).responses # <<>> =>
                 /\ Len(ACall(c).responses) = 1 /\ Len(ACall(c).requests) = 2
                 /\ Gen >= 1
                 /\ Authorization = CredentialAfter(Gen)
                 /\ Authorization # EmptyString)
  /\ [][\A c \in AuthIds :
          (authCalls[c].pc # "rejected" /\ authCalls'[c].pc = "rejected") =>
            /\ authCalls[c].pc \in {"attempt1", "attempt2"}
            /\ Authorization' = Authorization
            /\ authPromise' = authPromise
            /\ runs' = runs
            /\ Len(authCalls'[c].requests) = Len(authCalls[c].requests)]_vars

\* a call whose retry failed, the refreshed credential in place
C18_Witness ==
  \E c \in AuthIds :
    /\ ACall(c).pc = "rejected"
    /\ Len(ACall(c).responses) = 1
    /\ Authorization = Run(1).result[1]

\* a call whose first attempt failed while another call's refresh was in flight
C18_FirstAttemptCase ==
  \E c \in AuthIds :
    /\ ACall(c).pc = "rejected"
    /\ ACall(c).responses = <<>>
    /\ authPromise # 0

\* ------------------------------------------------------------ claims: fixedRefresh
CCall(c) == cacheCalls[c]
WindowMs == 1000 * RefreshIntervalOf(cacheInterval)

\* C3 (as claimed): whatever value the operation produced, an accessor call made within
\* the interval window after a completed refresh returns the cached value without
\* invoking the operation; one made after the interval has elapsed awaits a new refresh
\* and returns its value.
C3_CachedWithinWindow ==
  \A c \in CacheIds :
    CCall(c).gen >= 1 =>
      /\ CCall(c).at - CCall(c).sawTs < WindowMs =>
           ~CCall(c).triggered /\ CCall(c).result = CCall(c).sawRes
      /\ (CCall(c).at - CCall(c).sawTs > WindowMs /\ CCall(c).pc = "resolved") =>
           CCall(c).triggered /\ CCall(c).result = Run(CCall(c).awaited).result

\* C4: accessor calls that find the cache empty or stale before the refresh they trigger
\* has completed await one and the same run, the only one in flight, and resolve to the
\* value that run produced; a run whose operation never failed invoked it once.
C4_RefreshSingleFlight ==
  /\ \A c \in CacheIds :
       CCall(c).triggered =>
         /\ CCall(c).awaited = CCall(c).gen + 1
         /\ CCall(c).pc = "resolved" => CCall(c).result = Run(CCall(c).awaited).result
         /\ CCall(c).pc = "awaiting" => Pending(CCall(c).awaited)
  /\ \A c, d \in CacheIds :
       (CCall(c).triggered /\ CCall(d).triggered /\ CCall(c).gen = CCall(d).gen) =>
         /\ CCall(c).awaited = CCall(d).awaited
         /\ (CCall(c).pc = "resolved" /\ CCall(d).pc = "resolved") =>
              CCall(c).result = CCall(d).result
  /\ wrapper = "fixedRefresh" =>
       /\ Len(runs) <= Gen + 1
       /\ \A k \in RunIds : Run(k).fails = 0 => Run(k).invocations = 1

\* two calls that found the cache stale or empty, awaited the same refresh and resolved
C4_Witness ==
  \E c, d \in CacheIds :
    /\ c # d
    /\ CCall(c).triggered /\ CCall(d).triggered
    /\ CCall(c).gen = CCall(d).gen
    /\ CCall(c).pc = "resolved" /\ CCall(d).pc = "resolved"

\* C14 (as claimed): an accessor call triggers and awaits a refresh if and only if no
\* value has been produced yet or the time since the last update exceeds the interval; in
\* every other case, the elapsed time equal to the interval included, it returns the
\* cached value without invoking the operation.
C14_RefreshOnlyWhenExceeded ==
  \A c \in CacheIds :
    /\ CCall(c).triggered <=>
         (CCall(c).gen = 0 \/ CCall(c).at - CCall(c).sawTs > WindowMs)
    /\ ~CCall(c).triggered => CCall(c).result = CCall(c).sawRes

\* a call that found a truthy value whose age was exactly the interval, and refreshed
C14_BoundaryCase ==
  \E c \in CacheIds :
    /\ CCall(c).gen >= 1
    /\ ~Falsy(CCall(c).sawRes)
    /\ CCall(c).at - CCall(c).sawTs = WindowMs
    /\ WindowMs > 0
    /\ CCall(c).triggered

\* the value and the timestamp the cache holds after g completed refreshes
PairAfter(g) ==
  IF g = 0 THEN [res |-> Undefined, ts |-> 0]
           ELSE [res |-> Some(updates[g].value), ts |-> updates[g].at]

\* C11: res and lastUpdateTimestamp change together: the pair the cache holds, and the
\* pair every accessor call found when it was made, is the value and the completion time
\* of one and the same refresh (or the initial pair), never the value of one refresh
\* with the timestamp of another.
C11_ValueAndTimestampTogether ==
  wrapper = "fixedRefresh" =>
    /\ Len(updates) = Gen
    /\ [res |-> res, ts |-> lastUpdateTimestamp] = PairAfter(Len(updates))
    /\ \A c \in CacheIds :
         [res |-> CCall(c).sawRes, ts |-> CCall(c).sawTs] = PairAfter(CCall(c).gen)

\* a call made between two refreshes that differ in value and in completion time
C11_Witness ==
  /\ Len(updates) = 2
  /\ updates[1].value # updates[2].value
  /\ updates[1].at # updates[2].at
  /\ \E c \in CacheIds : CCall(c).gen = 1

\* ------------------------------------------------------------ claims: options objects
FrameIds == 1 .. Len(frames)
\* the Headers entries of options object o (none when it has no headers)
HeadersOf(o) == IF o.headers = 0 THEN <<>> ELSE headerObjects[o.headers]
\* the caller's object of frame f, and its Headers object, are as they were at the call
CallerUntouched(f) ==
  f.caller # 0 =>
    /\ optionObjects[f.caller] = f.before
    /\ HeadersOf(optionObjects[f.caller]) = f.beforeHeaders
\* object r is not the caller's object of frame f and did not exist when f was made:
\* it is none of the objects an earlier frame handed on
NewlyDerived(i, r) ==
  /\ r # 0
  /\ r # frames[i].caller
  /\ \A j \in 1 .. (i - 1) :
       /\ r # frames[j].caller
       /\ \A m \in 1 .. Len(frames[j].passed) : r # frames[j].passed[m]
       /\ \A m \in 1 .. Len(frames[j].inner) : r # frames[j].inner[m]

\* C12: fetchWithTimeout and the function returned by fetchWithAuth never change the
\* caller's options object or its headers; the object they hand to the transport is a new
\* one, holding the caller's fields with the controller's signal (and, for fetchWithAuth,
\* new headers carrying the credential); fetchByProxy changes the caller's object only in
\* its agent field, and hands a new object to the transport as well.
C12_OptionsFrame ==
  \A i \in FrameIds :
    LET f == frames[i] IN
    /\ f.fn \in {"fetchWithTimeout", "fetchWithAuth"} => CallerUntouched(f)
    /\ f.fn = "fetchWithTimeout" =>
         /\ Len(f.passed) = 1
         /\ NewlyDerived(i, f.passed[1])
         /\ optionObjects[f.passed[1]] = [f.before EXCEPT !.signal = Some(ControllerSignal)]
    /\ f.fn = "fetchWithAuth" =>
         /\ Len(f.passed) = Len(ACall(i).requests)
         /\ \A m \in 1 .. Len(f.passed) :
              LET o == optionObjects[f.passed[m]] IN
              /\ NewlyDerived(i, f.passed[m])
              /\ f.inner[m] # f.caller /\ f.inner[m] # f.passed[m]
              /\ o.headers # 0 /\ o.headers # f.before.headers
              /\ o = [f.before EXCEPT !.headers = o.headers, !.signal = Some(ControllerSignal)]
              /\ HeadersOf(o) = ACall(i).requests[m].headers
              /\ \A key \in DOMAIN f.beforeHeaders : HeadersOf(o)[key] = f.beforeHeaders[key]
    /\ f.fn = "fetchByProxy" =>
         /\ f.caller # 0 =>
              /\ optionObjects[f.caller] = [f.before EXCEPT !.agent = optionObjects[f.caller].agent]
              /\ optionObjects[f.caller].agent =
                   IF proxyCalls[i].threw = Undefined THEN f.before.proxyUrl ELSE Undefined
         /\ proxyCalls[i].threw = Undefined =>
              /\ Len(f.passed) = 1
              /\ NewlyDerived(i, f.passed[1])
              /\ optionObjects[f.passed[1]] =
                   [optionObjects[f.caller] EXCEPT !.signal = Some(ControllerSignal)]

\* a call of the wrapped request function that was given options with headers and has
\* issued its retry
C12_Witness ==
  \E i \in FrameIds :
    /\ frames[i].fn = "fetchWithAuth"
    /\ frames[i].caller # 0
    /\ frames[i].beforeHeaders # <<>>
    /\ Len(frames[i].passed) = 2

\* a fetchWithTimeout call given options that carry a signal of the caller's
C12_TimeoutCase ==
  \E i \in FrameIds :
    frames[i].fn = "fetchWithTimeout" /\ frames[i].before.signal = Some(CallerSignal)

\* a fetchByProxy call that attached its agent to the caller's object
C12_ProxyCase ==
  \E i \in FrameIds :
    /\ frames[i].fn = "fetchByProxy"
    /\ frames[i].caller # 0
    /\ optionObjects[frames[i].caller].agent # Undefined

\* ------------------------------------------------------------ claims: fetchByProxy
PCall(p) == proxyCalls[p]
NoProxyUrl(init) == init = Undefined \/ init[1].proxyUrl = Undefined

Slot == IF wrapper = "fetchWithAuth" THEN authPromise ELSE cachePromise
\* the runs the pending calls of the wrapper await
Awaited ==
  {Last(ACall(c).awaited) : c \in {d \in AuthIds : ACall(d).pc = "refreshing"}}
    \cup {CCall(c).awaited : c \in {d \in CacheIds : CCall(d).pc = "awaiting"}}

\* C5: a fetchWithAuth or fixedRefresh instance has at most one run in flight: the one its
\* promise slot holds, which every call waiting in update() awaits; the slot is empty
\* exactly when no run is in flight.
C5_AtMostOneRefreshInFlight ==
  wrapper \in {"fetchWithAuth", "fixedRefresh"} =>
    /\ Cardinality(InFlight) <= 1
    /\ InFlight = IF Slot = 0 THEN {} ELSE {Slot}
    /\ Awaited \subseteq InFlight

\* the slot was cleared when the first run completed, and a later update() has started
\* the second run, which is in flight and awaited
C5_Witness ==
  /\ wrapper = "fetchWithAuth"
  /\ Len(runs) = 2
  /\ Run(1).pc = "resolved"
  /\ authPromise = 2
  /\ \E c \in AuthIds : ACall(c).pc = "refreshing" /\ ACall(c).awaited = <<2>>

\* ------------------------------------------------------------ specification
Init ==
  /\ wrapper \in Wrappers
  /\ now = StartTime
  /\ ticks = 0
  /\ runs = <<>>
  /\ timeoutCalls = <<>>
  /\ clearImmediateCancels \in (IF wrapper = JsFetchWithTimeout THEN BOOLEAN ELSE {TRUE})
  /\ authInit \in (IF wrapper = "fetchWithAuth" THEN AuthInits ELSE {Undefined})
  /\ authRefusal \in (IF wrapper = "fetchWithAuth" THEN AuthFailures ELSE {401})
  /\ Authorization = EmptyString
  /\ authPromise = 0
  /\ authCalls = <<>>
  /\ res = Undefined
  /\ cachePromise = 0
  /\ lastUpdateTimestamp = 0
  /\ cacheInterval \in (IF wrapper = "fixedRefresh" THEN CacheIntervals ELSE {Undefined})
  /\ cacheCalls = <<>>
  /\ updates = <<>>
  /\ optionObjects = IF authInit = Undefined THEN <<>>
                     ELSE <<[BlankOptions EXCEPT !.headers = 1, !.timeout = authInit[1].timeout]>>
  /\ headerObjects = IF authInit = Undefined THEN <<>> ELSE <<authInit[1].headers>>
  /\ frames = <<>>
  /\ proxyCalls = <<>>

Next ==
  \/ \E arg \in IntervalArgs : RetryCall(arg)
  \/ \E k \in RunIds, v \in Values : RetryResolves(k, v)
  \/ \E k \in RunIds : OpFails(k)
  \/ \E k \in RunIds : RetryTimerFires(k)
  \/ Tick
  \/ \E i \in TimeoutInits : TimeoutCall(i)
  \/ \E i \in ProxyInits : ProxyCall(i)
  \/ AuthCall
  \/ \E c \in AuthIds, st \in ServerStatuses : FirstResponse(c, st)
  \/ \E c \in AuthIds, st \in ServerStatuses : RetryResponse(c, st)
  \/ \E c \in AuthIds, e \in AttemptFailures : AttemptFails(c, e)
  \/ \E k \in RunIds : \E v \in Tokens(k) : TokenFetched(k, v)
  \/ CacheCall
  \/ \E k \in RunIds, v \in Values : DataFetched(k, v)
  \/ \E c \in TimeoutIds, r \in Responses : TransportResolves(c, r)
  \/ \E c \in TimeoutIds, e \in TransportFailures : TransportRejects(c, e)
  \/ \E c \in TimeoutIds, e \in AbortReports : AbortTimerFires(c, e)

Spec == Init /\ [][Next]_vars

\* fetchWithRetry with timers that fire and an operation that settles: a pending
\* setTimeout callback is run by the event loop, and the operation's promise settles
RetryInit == Init /\ wrapper = "fetchWithRetry"
RetryNext ==
  \/ \E arg \in IntervalArgs : RetryCall(arg)
  \/ \E k \in RunIds, v \in Values : RetryResolves(k, v)
  \/ \E k \in RunIds : OpFails(k)
  \/ \E k \in RunIds : RetryTimerFires(k)
  \/ Tick
OpSettles == (\E k \in RunIds, v \in Values : RetryResolves(k, v)) \/ (\E k \in RunIds : OpFails(k))
TimerFires == \E k \in RunIds : RetryTimerFires(k)
RetrySpec == RetryInit /\ [][RetryNext]_vars /\ WF_vars(OpSettles) /\ WF_vars(TimerFires)
====
